---------------------------- MODULE Spec2Model ----------------------------
(***************************************************************************)
(* Model of the App component of the cervical cancer classifier front end  *)
(* (src/frontend/src/App.jsx): the component's state hooks, its three      *)
(* event handlers, the effect that loads the evaluation metrics, and the   *)
(* two asynchronous continuations (metrics fetch, prediction request).     *)
(*                                                                         *)
(* Numbers that the code writes as fractions (0.90, 0.8, ...) are kept in  *)
(* hundredths (90, 80, ...).  JavaScript values are kept apart by a tag:   *)
(* null, undefined, or an object with its own key set.                     *)
(***************************************************************************)
EXTENDS Integers, Sequences, FiniteSets, TLC

\* ------------------------------------------------------------------ bounds
NumFiles == 2
MaxMetricsFetches == 2
MaxPredicts == 2

\* ------------------------------------------------------------ JS values
JsNull == [t |-> "null"]
JsUndefined == [t |-> "undefined"]
Obj(fields) == [t |-> "object", v |-> fields]
Truthy(x) == x.t = "object"
Has(o, k) == k \in DOMAIN o

NoFile == 0
Files == 1..NumFiles
NoUrl == 0
\* URL.createObjectURL(file): a URL that is not the one currently held.  Only
\* the current URL is ever kept, so two names are enough to keep them apart.
createObjectURL(current) == IF current = 1 THEN 2 ELSE 1

Models == {"cnn", "vgg16"}
DefaultModel == "vgg16"

\* ------------------------------------------------------- message strings
NoError == ""
NoFileMessage == "Please select an image first"
GenericMessage == "Failed to make prediction"
ServerMessages == {"file too large"}

\* ------------------------------------------------------ metrics payloads
FallbackMetrics == [accuracy |-> 90, precision |-> 90, recall |-> 89, f1_score |-> 89]

EmptyObject == [k \in {} |-> 0]
PlainMetrics == [accuracy |-> 95, precision |-> 94, recall |-> 93, f1_score |-> 94]

\* What the metrics endpoint can answer: a failure (timeout, transport error,
\* non-2xx: axios rejects), or a 2xx whose body is null, an object without a
\* `metrics` key, or an object with a `metrics` object.
MetricsResponses ==
    {[kind |-> "fail", m |-> EmptyObject],
     [kind |-> "null", m |-> EmptyObject],
     [kind |-> "nometrics", m |-> EmptyObject]}
    \cup {[kind |-> "metrics", m |-> x] :
            x \in {PlainMetrics, EmptyObject}}

\* -------------------------------------------------- prediction payloads
GoodBody(m) ==
    [prediction |-> "Negative", confidence |-> 93,
     all_predictions |-> <<<<"Negative", 93>>, <<"Low", 7>>>>, model_type |-> m]
OtherBody(m) ==
    [prediction |-> "High", confidence |-> 70,
     all_predictions |-> <<<<"High", 70>>, <<"Carcinoma", 30>>>>, model_type |-> m]
NoConfidenceBody(m) ==
    [prediction |-> "Negative",
     all_predictions |-> <<<<"Negative", 93>>, <<"Low", 7>>>>, model_type |-> m]
NoClassesBody(m) ==
    [prediction |-> "Negative", confidence |-> 93,
     all_predictions |-> <<>>, model_type |-> m]

\* What the inference endpoint can answer to a request for model m: a 2xx with
\* a body (or with none: response.data is then falsy), a non-2xx with or
\* without an `error` string, or no response at all.
PredictResponses(m) ==
    {[kind |-> "ok", data |-> Obj(b), msg |-> NoError] :
        b \in {GoodBody(m), OtherBody(m), NoConfidenceBody(m), NoClassesBody(m)}}
    \cup {[kind |-> "ok", data |-> JsNull, msg |-> NoError]}
    \cup {[kind |-> "http", data |-> JsNull, msg |-> s] : s \in ServerMessages \cup {NoError}}
    \cup {[kind |-> "network", data |-> JsNull, msg |-> NoError]}

\* ------------------------------------------------------------------ state
VARIABLES
    selectedFile,        \* useState(null): the chosen file, NoFile for null
    previewUrl,          \* useState(null): the object URL, NoUrl for null
    prediction,          \* useState(null): the body of the last 2xx answer
    loading,             \* useState(false)
    error,               \* useState('')
    selectedModel,       \* useState('vgg16')
    evaluationMetrics,   \* useState(null)
    loadingMetrics,      \* useState(false)
    metricsIssued,       \* metrics fetches issued so far (the last one's number)
    metricsInFlight,     \* metrics fetches awaiting their answer
    metricsOwner,        \* number of the fetch that last wrote evaluationMetrics
    predictIssued,       \* prediction requests issued so far
    predictInFlight,     \* prediction requests awaiting their answer
    predictionFor,       \* the file and model the held prediction was asked for
    event                \* the handler that ran last, and what it found

selection == <<selectedFile, previewUrl, selectedModel>>
metricsVars == <<evaluationMetrics, loadingMetrics, metricsIssued, metricsInFlight, metricsOwner>>
predictVars == <<prediction, loading, error, predictIssued, predictInFlight, predictionFor>>
vars == <<selection, metricsVars, predictVars, event>>

NoRequest == [file |-> NoFile, model |-> ""]

\* What the last handler was and what it was given (the kind of answer, or the
\* model that was selected before); a handler that replaces the prediction or
\* the error also notes what it found.
Ev(op, arg) == [op |-> op, arg |-> arg, hadPrediction |-> FALSE, hadError |-> FALSE]
EvFound(op, arg) ==
    [op |-> op, arg |-> arg, hadPrediction |-> Truthy(prediction), hadError |-> error # NoError]

\* ---------------------------------------------------------- loadMetrics
\* loadMetrics up to its await: the flag is raised and the request leaves.
loadMetrics(modelType) ==
    /\ loadingMetrics' = TRUE
    /\ metricsIssued' = metricsIssued + 1
    /\ metricsInFlight' = metricsInFlight \cup {[seq |-> metricsIssued + 1, model |-> modelType]}
    /\ UNCHANGED <<evaluationMetrics, metricsOwner>>

MetricsAfter_NullOnFailure(resp) ==
    IF resp.kind \in {"fail", "null"} THEN JsNull
    ELSE IF resp.kind = "nometrics" THEN JsUndefined
    ELSE Obj(resp.m)

\* The value loadMetrics hands to setEvaluationMetrics once the fetch settles:
\* response.data.metrics in the try block (reading .metrics of a null body
\* throws inside the try), the hardcoded defaults in the catch block.
MetricsAfter(resp) ==
    IF resp.kind \in {"fail", "null"} THEN Obj(FallbackMetrics)
    ELSE IF resp.kind = "nometrics" THEN JsUndefined
    ELSE Obj(resp.m)

\* loadMetrics from its await on, for fetch r answered with resp.
loadMetricsSettle(r, resp) ==
    /\ r \in metricsInFlight
    /\ evaluationMetrics' = MetricsAfter(resp)
    /\ loadingMetrics' = FALSE
    /\ metricsInFlight' = metricsInFlight \ {r}
    /\ metricsOwner' = r.seq
    /\ UNCHANGED <<metricsIssued, selection, predictVars>>
    /\ event' = Ev("metricsSettled", resp.kind)

modelEffect_RunsEveryClick == loadMetrics(selectedModel')

\* useEffect(() => loadMetrics(selectedModel), [selectedModel]) after a render:
\* the effect runs when the rendered selectedModel differs from the last one.
modelEffect ==
    IF selectedModel' # selectedModel
    THEN loadMetrics(selectedModel')
    ELSE UNCHANGED metricsVars

\* -------------------------------------------------- values for display
\* const metrics = evaluationMetrics || { ...defaults }
metrics == IF Truthy(evaluationMetrics) THEN evaluationMetrics.v ELSE FallbackMetrics

FirstTruthy_FirstNameOnly(m, first, second) ==
    IF Has(m, first) /\ m[first] # 0 THEN m[first] ELSE 0

\* (m.first || m.second || 0): an absent key and 0 are both falsy.
FirstTruthy(m, first, second) ==
    IF Has(m, first) /\ m[first] # 0 THEN m[first]
    ELSE IF Has(m, second) /\ m[second] # 0 THEN m[second]
    ELSE 0

\* The four numbers the Key Metrics panel derives from m.
KeyMetrics(m) ==
    [accuracy |-> FirstTruthy(m, "accuracy", "accuracy_score"),
     precision |-> FirstTruthy(m, "precision", "precision_score"),
     recall |-> FirstTruthy(m, "recall", "recall_score"),
     f1 |-> FirstTruthy(m, "f1_score", "f1")]

\* ------------------------------------------------------ event handlers
\* Whether the file handed to handleFileSelect is the one already selected.
Reselected(file) == IF file = selectedFile THEN "again" ELSE ""

handleFileSelect_KeepsError(file) ==
    /\ IF file # NoFile
       THEN /\ selectedFile' = file
            /\ previewUrl' = createObjectURL(previewUrl)
            /\ prediction' = JsNull
            /\ predictionFor' = NoRequest
       ELSE UNCHANGED <<selectedFile, previewUrl, prediction, predictionFor>>
    /\ UNCHANGED <<error, selectedModel, loading, predictIssued, predictInFlight, metricsVars>>
    /\ event' = IF file # NoFile THEN EvFound("selectFile", Reselected(file))
                 ELSE Ev("selectNothing", "")

handleFileSelect_CancelClearsPrediction(file) ==
    /\ IF file # NoFile
       THEN /\ selectedFile' = file
            /\ previewUrl' = createObjectURL(previewUrl)
       ELSE UNCHANGED <<selectedFile, previewUrl>>
    /\ prediction' = JsNull
    /\ predictionFor' = NoRequest
    /\ error' = NoError
    /\ UNCHANGED <<selectedModel, loading, predictIssued, predictInFlight, metricsVars>>
    /\ event' = IF file # NoFile THEN EvFound("selectFile", Reselected(file))
                 ELSE Ev("selectNothing", "")

handleFileSelect_ReselectDeselects(file) ==
    /\ IF file # NoFile
       THEN /\ selectedFile' = IF file = selectedFile THEN NoFile ELSE file
            /\ previewUrl' = IF file = selectedFile THEN NoUrl ELSE createObjectURL(previewUrl)
            /\ prediction' = JsNull
            /\ predictionFor' = NoRequest
            /\ error' = NoError
       ELSE UNCHANGED <<selectedFile, previewUrl, prediction, predictionFor, error>>
    /\ UNCHANGED <<selectedModel, loading, predictIssued, predictInFlight, metricsVars>>
    /\ event' = IF file # NoFile THEN EvFound("selectFile", Reselected(file))
                 ELSE Ev("selectNothing", "")

\* handleFileSelect with event.target.files[0] = file (NoFile: no file).
handleFileSelect_CancelClearsFile(file) ==
    /\ selectedFile' = file
    /\ IF file # NoFile
       THEN /\ previewUrl' = createObjectURL(previewUrl)
            /\ prediction' = JsNull
            /\ predictionFor' = NoRequest
            /\ error' = NoError
       ELSE UNCHANGED <<previewUrl, prediction, predictionFor, error>>
    /\ UNCHANGED <<selectedModel, loading, predictIssued, predictInFlight, metricsVars>>
    /\ event' = IF file # NoFile THEN EvFound("selectFile", Reselected(file))
                 ELSE Ev("selectNothing", "")

handleFileSelect(file) ==
    /\ IF file # NoFile
       THEN /\ selectedFile' = file
            /\ previewUrl' = createObjectURL(previewUrl)
            /\ prediction' = JsNull
            /\ predictionFor' = NoRequest
            /\ error' = NoError
       ELSE UNCHANGED <<selectedFile, previewUrl, prediction, predictionFor, error>>
    /\ UNCHANGED <<selectedModel, loading, predictIssued, predictInFlight, metricsVars>>
    /\ event' = IF file # NoFile THEN EvFound("selectFile", Reselected(file))
                 ELSE Ev("selectNothing", "")

handleModelChange_KeepsPrediction(modelType) ==
    /\ selectedModel' = modelType
    /\ modelEffect
    /\ UNCHANGED <<prediction, predictionFor, selectedFile, previewUrl, loading, error,
                   predictIssued, predictInFlight>>
    /\ event' = EvFound("selectModel", selectedModel)

\* handleModelChange, then the render and the effect it schedules.
handleModelChange(modelType) ==
    /\ selectedModel' = modelType
    /\ prediction' = JsNull
    /\ predictionFor' = NoRequest
    /\ modelEffect
    /\ UNCHANGED <<selectedFile, previewUrl, loading, error,
                   predictIssued, predictInFlight>>
    /\ event' = EvFound("selectModel", selectedModel)

handlePredict_KeepsLoadingFlag ==
    /\ IF selectedFile = NoFile
       THEN /\ error' = NoFileMessage
            /\ UNCHANGED <<loading, predictIssued, predictInFlight>>
            /\ event' = Ev("submitNoFile", "")
       ELSE /\ UNCHANGED loading
            /\ error' = NoError
            /\ predictIssued' = predictIssued + 1
            /\ predictInFlight' = predictInFlight \cup
                 {[seq |-> predictIssued + 1, file |-> selectedFile, model |-> selectedModel]}
            /\ event' = Ev("submit", "")
    /\ UNCHANGED <<prediction, predictionFor, selection, metricsVars>>

handlePredict_NoFileCheck ==
    /\ loading' = TRUE
    /\ error' = NoError
    /\ predictIssued' = predictIssued + 1
    /\ predictInFlight' = predictInFlight \cup
         {[seq |-> predictIssued + 1, file |-> selectedFile, model |-> selectedModel]}
    /\ event' = Ev("submit", "")
    /\ UNCHANGED <<prediction, predictionFor, selection, metricsVars>>

\* handlePredict up to its await.
handlePredict ==
    /\ IF selectedFile = NoFile
       THEN /\ error' = NoFileMessage
            /\ UNCHANGED <<loading, predictIssued, predictInFlight>>
            /\ event' = Ev("submitNoFile", "")
       ELSE /\ loading' = TRUE
            /\ error' = NoError
            /\ predictIssued' = predictIssued + 1
            /\ predictInFlight' = predictInFlight \cup
                 {[seq |-> predictIssued + 1, file |-> selectedFile, model |-> selectedModel]}
            /\ event' = Ev("submit", "")
    /\ UNCHANGED <<prediction, predictionFor, selection, metricsVars>>

ErrorMessageOf_AlwaysGeneric(resp) == GenericMessage

\* err.response?.data?.error || 'Failed to make prediction'
ErrorMessageOf(resp) ==
    IF resp.kind = "http" /\ resp.msg # NoError THEN resp.msg ELSE GenericMessage

handlePredictSettle_RetriesOnFailure(r, resp) ==
    /\ r \in predictInFlight
    /\ IF resp.kind = "ok"
       THEN /\ prediction' = resp.data
            /\ predictionFor' = [file |-> r.file, model |-> r.model]
            /\ loading' = FALSE
            /\ predictInFlight' = predictInFlight \ {r}
            /\ UNCHANGED <<error, predictIssued>>
       ELSE /\ error' = ErrorMessageOf(resp)
            /\ predictIssued' = predictIssued + 1
            /\ predictInFlight' = (predictInFlight \ {r}) \cup
                 {[seq |-> predictIssued + 1, file |-> r.file, model |-> r.model]}
            /\ UNCHANGED <<prediction, predictionFor, loading>>
    /\ UNCHANGED <<selection, metricsVars>>
    /\ event' = EvFound("predictSettled", resp.kind)

handlePredictSettle_MergesClasses(r, resp) ==
    /\ r \in predictInFlight
    /\ IF resp.kind = "ok"
       THEN /\ prediction' =
                 IF Truthy(prediction) /\ Truthy(resp.data)
                 THEN Obj([resp.data.v EXCEPT !.all_predictions =
                              @ \o prediction.v.all_predictions])
                 ELSE resp.data
            /\ predictionFor' = [file |-> r.file, model |-> r.model]
            /\ UNCHANGED error
       ELSE /\ error' = ErrorMessageOf(resp)
            /\ UNCHANGED <<prediction, predictionFor>>
    /\ loading' = FALSE
    /\ predictInFlight' = predictInFlight \ {r}
    /\ UNCHANGED <<predictIssued, selection, metricsVars>>
    /\ event' = EvFound("predictSettled", resp.kind)

handlePredictSettle_NoFinally(r, resp) ==
    /\ r \in predictInFlight
    /\ IF resp.kind = "ok"
       THEN /\ prediction' = resp.data
            /\ predictionFor' = [file |-> r.file, model |-> r.model]
            /\ loading' = FALSE
            /\ UNCHANGED error
       ELSE /\ error' = ErrorMessageOf(resp)
            /\ UNCHANGED <<prediction, predictionFor, loading>>
    /\ predictInFlight' = predictInFlight \ {r}
    /\ UNCHANGED <<predictIssued, selection, metricsVars>>
    /\ event' = EvFound("predictSettled", resp.kind)

\* handlePredict from its await on, for request r answered with resp.
handlePredictSettle(r, resp) ==
    /\ r \in predictInFlight
    /\ IF resp.kind = "ok"
       THEN /\ prediction' = resp.data
            /\ predictionFor' = [file |-> r.file, model |-> r.model]
            /\ UNCHANGED error
       ELSE /\ error' = ErrorMessageOf(resp)
            /\ UNCHANGED <<prediction, predictionFor>>
    /\ loading' = FALSE
    /\ predictInFlight' = predictInFlight \ {r}
    /\ UNCHANGED <<predictIssued, selection, metricsVars>>
    /\ event' = EvFound("predictSettled", resp.kind)

submitDisabled_WhileMetricsLoad == loading \/ loadingMetrics \/ selectedFile = NoFile

submitDisabled_IgnoresLoading == selectedFile = NoFile

\* disabled={loading || !selectedFile} on the Analyze button
submitDisabled == loading \/ selectedFile = NoFile

\* ------------------------------------------------------------- the run
\* After the first render and its effect: loadMetrics('vgg16') is under way.
Init ==
    /\ selectedFile = NoFile
    /\ previewUrl = NoUrl
    /\ prediction = JsNull
    /\ loading = FALSE
    /\ error = NoError
    /\ selectedModel = DefaultModel
    /\ evaluationMetrics = JsNull
    /\ loadingMetrics = TRUE
    /\ metricsIssued = 1
    /\ metricsInFlight = {[seq |-> 1, model |-> DefaultModel]}
    /\ metricsOwner = 0
    /\ predictIssued = 0
    /\ predictInFlight = {}
    /\ predictionFor = NoRequest
    /\ event = Ev("mount", "")

\* The file input's onChange.
PickFile ==
    \E file \in Files \cup {NoFile} : handleFileSelect(file)

\* A click on one of the two model buttons.
ClickModel ==
    \E modelType \in Models :
        /\ modelType # selectedModel => metricsIssued < MaxMetricsFetches
        /\ handleModelChange(modelType)

\* A click on the Analyze button: a disabled button delivers no click.
ClickAnalyze ==
    IF submitDisabled
    THEN /\ UNCHANGED <<selection, metricsVars, predictVars>>
         /\ event' = Ev("clickDisabled", "")
    ELSE /\ predictIssued < MaxPredicts
         /\ handlePredict

\* handlePredict called as an operation, without the button in front of it,
\* by a caller that awaits each call before it makes the next.
CallPredict ==
    /\ predictInFlight = {}
    /\ selectedFile # NoFile => predictIssued < MaxPredicts
    /\ handlePredict

MetricsAnswer ==
    \E r \in metricsInFlight : \E resp \in MetricsResponses : loadMetricsSettle(r, resp)

PredictAnswer ==
    \E r \in predictInFlight : \E resp \in PredictResponses(r.model) : handlePredictSettle(r, resp)

Next ==
    \/ PickFile
    \/ ClickModel
    \/ ClickAnalyze
    \/ MetricsAnswer
    \/ PredictAnswer

Spec == Init /\ [][Next]_vars

\* The inference stream when every prediction request that was issued is
\* answered in the end (axios settles the promise: an answer, an error or a
\* timeout).  The answers to metrics fetches are left out: loadMetricsSettle
\* leaves the selection and every variable of the inference stream unchanged.
NextLive ==
    \/ PickFile
    \/ ClickModel
    \/ ClickAnalyze
    \/ PredictAnswer

SpecLive == Init /\ [][NextLive]_vars /\ WF_vars(PredictAnswer)

\* The handlers driven as operations: handlePredict is called whether or not
\* the button would have delivered the click.
\* --------------------------------------------- the prediction panel
\* Confidences are held in hundredths: 0.8 is 80.
MaxConfidence == 100
\* The most classes a rendered answer lists.
MaxClasses == 3

Labels == {"10", "2", "Negative", "Low"}
Probabilities == {30, 70}

\* o[k] for a numeric key that may be absent.
Num(n) == [t |-> "number", v |-> n]
Field(o, k) == IF Has(o, k) THEN Num(o[k]) ELSE JsUndefined

\* A comparison with undefined is false, so an absent confidence falls
\* through both tests.
getConfidenceColor_InclusiveBounds(confidence) ==
    IF confidence.t = "number" /\ confidence.v >= 80 THEN "text-green-600"
    ELSE IF confidence.t = "number" /\ confidence.v >= 60 THEN "text-yellow-600"
    ELSE "text-red-600"

getConfidenceColor(confidence) ==
    IF confidence.t = "number" /\ confidence.v > 80 THEN "text-green-600"
    ELSE IF confidence.t = "number" /\ confidence.v > 60 THEN "text-yellow-600"
    ELSE "text-red-600"

\* A mapping is the sequence of its (key, value) pairs in the order the
\* keys stand in the response text.  Keys that are canonical array indices
\* ("2", "10") are enumerated first, in ascending numeric order; the other
\* keys follow in the order they were inserted.
ArrayIndex(label) ==
    CASE label = "2" -> 2
      [] label = "10" -> 10
      [] OTHER -> -1

RECURSIVE AscendingIndex(_)
AscendingIndex(pairs) ==
    IF pairs = {} THEN <<>>
    ELSE LET p == CHOOSE p \in pairs :
                      \A q \in pairs : ArrayIndex(p[1]) <= ArrayIndex(q[1])
         IN <<p>> \o AscendingIndex(pairs \ {p})

ObjectEntries(mapping) ==
    AscendingIndex({mapping[i] : i \in {j \in DOMAIN mapping : ArrayIndex(mapping[j][1]) >= 0}})
        \o SelectSeq(mapping, LAMBDA p : ArrayIndex(p[1]) < 0)

\* The mappings an answer can carry: up to MaxClasses distinct labels.
ClassMappings ==
    UNION {{s \in [1..n -> Labels \X Probabilities] :
                \A i, j \in 1..n : i # j => s[i][1] # s[j][1]} : n \in 0..MaxClasses}

RenderedBodies ==
    {[prediction |-> "Negative", confidence |-> c,
      all_predictions |-> a, model_type |-> DefaultModel] :
        c \in 0..MaxConfidence, a \in ClassMappings}
    \cup {[prediction |-> "Negative",
           all_predictions |-> a, model_type |-> DefaultModel] : a \in ClassMappings}

\* What the panel shows of the held prediction: the class of the confidence
\* line and the rows of the probability list.
PredictionPanel ==
    [colour |-> getConfidenceColor(Field(prediction.v, "confidence")),
     entries |-> ObjectEntries(prediction.v.all_predictions)]

\* The component after the first file was analysed with the default model and
\* the answer was a 2xx with one of the bodies above (the metrics fetch of the
\* mount has failed and left the defaults).
InitRender ==
    /\ selectedFile = 1
    /\ previewUrl = createObjectURL(NoUrl)
    /\ prediction \in {Obj(b) : b \in RenderedBodies}
    /\ loading = FALSE
    /\ error = NoError
    /\ selectedModel = DefaultModel
    /\ evaluationMetrics = Obj(FallbackMetrics)
    /\ loadingMetrics = FALSE
    /\ metricsIssued = 1
    /\ metricsInFlight = {}
    /\ metricsOwner = 1
    /\ predictIssued = 1
    /\ predictInFlight = {}
    /\ predictionFor = [file |-> 1, model |-> DefaultModel]
    /\ event = Ev("predictSettled", "ok")

Render ==
    /\ Truthy(prediction)
    /\ event' = Ev("render", PredictionPanel)
    /\ UNCHANGED <<selection, metricsVars, predictVars>>

NextRender == Render

SpecRender == InitRender /\ [][NextRender]_vars

\* An identifier that is neither 'cnn' nor 'vgg16'.
UnknownModels == {"resnet"}

\* handleModelChange called as an operation, with any identifier: only the two
\* buttons restrict the argument, the handler itself takes what it is given.
CallModelChange ==
    \E modelType \in Models \cup UnknownModels :
        /\ modelType # selectedModel => metricsIssued < MaxMetricsFetches
        /\ handleModelChange(modelType)

\* ------------------------------------------------- the Key Metrics panel
\* Metric values are held in hundredths, from 0 to MaxMetric.
MaxMetric == 100

MetricFields == {"accuracy", "precision", "recall", "f1"}
Variants == {"first", "second"}

\* The two names the panel reads each number under, in the order it reads them.
MetricKey(field, variant) ==
    CASE field = "accuracy" -> IF variant = "first" THEN "accuracy" ELSE "accuracy_score"
      [] field = "precision" -> IF variant = "first" THEN "precision" ELSE "precision_score"
      [] field = "recall" -> IF variant = "first" THEN "recall" ELSE "recall_score"
      [] field = "f1" -> IF variant = "first" THEN "f1_score" ELSE "f1"

MetricFieldOf(key) ==
    CHOOSE field \in MetricFields : \E variant \in Variants : MetricKey(field, variant) = key

\* A `metrics` object that names each number under one of its two names:
\* naming[field] is the name used, `varied` holds value, the other numbers
\* are those of PlainMetrics.
MetricsObject(naming, varied, value) ==
    [key \in {MetricKey(field, naming[field]) : field \in MetricFields} |->
        IF MetricFieldOf(key) = varied THEN value
        ELSE PlainMetrics[MetricKey(MetricFieldOf(key), "first")]]

MetricsObjects ==
    {MetricsObject(naming, varied, value) :
        naming \in [MetricFields -> Variants],
        varied \in MetricFields,
        value \in 0..MaxMetric}

\* The component after the metrics fetch of the mount was answered with one of
\* these objects.
InitMetricsPanel ==
    /\ selectedFile = NoFile
    /\ previewUrl = NoUrl
    /\ prediction = JsNull
    /\ loading = FALSE
    /\ error = NoError
    /\ selectedModel = DefaultModel
    /\ evaluationMetrics \in {Obj(m) : m \in MetricsObjects}
    /\ loadingMetrics = FALSE
    /\ metricsIssued = 1
    /\ metricsInFlight = {}
    /\ metricsOwner = 1
    /\ predictIssued = 0
    /\ predictInFlight = {}
    /\ predictionFor = NoRequest
    /\ event = Ev("metricsSettled", "metrics")

\* The panel is drawn when no fetch holds the spinner up.
RenderMetrics ==
    /\ ~loadingMetrics
    /\ event' = Ev("renderMetrics", KeyMetrics(metrics))
    /\ UNCHANGED <<selection, metricsVars, predictVars>>

NextMetricsPanel == RenderMetrics

SpecMetricsPanel == InitMetricsPanel /\ [][NextMetricsPanel]_vars

NextHandlers ==
    \/ PickFile
    \/ ClickModel
    \/ CallPredict
    \/ MetricsAnswer
    \/ PredictAnswer

SpecHandlers == Init /\ [][NextHandlers]_vars

\* The component with handleModelChange called as an operation.  The answers
\* to metrics fetches are left out: what is looked at is what the call itself
\* does to the selection, the prediction and the fetches issued.
NextModelCalls ==
    \/ PickFile
    \/ CallModelChange
    \/ ClickAnalyze
    \/ PredictAnswer

SpecModelCalls == Init /\ [][NextModelCalls]_vars

\* ------------------------------------------------------------------
\* Properties
\* ------------------------------------------------------------------

\* C1: last-request-wins for metrics.  Once no metrics fetch is outstanding,
\* the metrics held were written by the most recently issued fetch (the one
\* for the selected model), whatever the order in which the fetches settled.
C1_LastRequestWins ==
    metricsInFlight = {} => metricsOwner = metricsIssued

\* C2: a click on Analyze while a request is Loading is a no-op: it issues no
\* request and leaves the one in flight alone, so at most one prediction
\* request is ever in flight.
C2_SubmitWhileLoadingIsNoOp ==
    /\ [](Cardinality(predictInFlight) <= 1)
    /\ [][(loading /\ ClickAnalyze) =>
            /\ predictInFlight' = predictInFlight
            /\ predictIssued' = predictIssued
            /\ Cardinality(predictInFlight') = 1]_vars

C2_ClickedWhileLoading ==
    /\ event.op = "clickDisabled"
    /\ loading
    /\ selectedFile # NoFile
    /\ Cardinality(predictInFlight) = 1

\* C3: a prediction that is held was computed for the file and the model that
\* are selected now.
C3_PredictionIsForSelection ==
    Truthy(prediction) =>
        predictionFor = [file |-> selectedFile, model |-> selectedModel]

\* C4: handlePredict with no file selected issues no request, does not enter
\* Loading and sets the "no file selected" message; the prediction, the
\* metrics and the selection stay as they were.
C4_SubmitWithoutFile ==
    [][(selectedFile = NoFile /\ CallPredict) =>
            /\ error' = NoFileMessage
            /\ ~loading'
            /\ predictInFlight' = predictInFlight
            /\ predictIssued' = predictIssued
            /\ prediction' = prediction
            /\ UNCHANGED <<metricsVars, selection>>]_vars

C4_SubmittedWithoutFile ==
    /\ event.op = "submitNoFile"
    /\ selectedFile = NoFile
    /\ error = NoFileMessage
    /\ ~loading
    /\ predictInFlight = {}
    /\ predictIssued = 0

\* A 2xx body with a label, a confidence in [0,1] and a non-empty class map.
WellFormedPrediction(b) ==
    /\ Has(b, "prediction")
    /\ Has(b, "confidence")
    /\ b.confidence \in 0..100
    /\ Has(b, "all_predictions")
    /\ Len(b.all_predictions) > 0

\* C5: a structurally invalid 2xx answer never becomes the held prediction:
\* whatever prediction is held is well formed.
C5_MalformedNeverStored ==
    Truthy(prediction) => WellFormedPrediction(prediction.v)

\* C6: when a metrics fetch fails, the metrics become exactly the hardcoded
\* defaults (0.90, 0.90, 0.89, 0.89), and no answer to a metrics fetch, failed
\* or not, touches the error message.
C6_MetricsFailureFallsBack ==
    [][\A r \in metricsInFlight :
         /\ loadMetricsSettle(r, [kind |-> "fail", m |-> EmptyObject]) =>
               evaluationMetrics' =
                 Obj([accuracy |-> 90, precision |-> 90, recall |-> 89, f1_score |-> 89])
         /\ \A resp \in MetricsResponses :
               loadMetricsSettle(r, resp) => error' = error]_vars

C6_FailedWithErrorShown ==
    /\ event.op = "metricsSettled"
    /\ event.arg = "fail"
    /\ evaluationMetrics = Obj(FallbackMetrics)
    /\ error = GenericMessage

\* Each of the four metrics is present in m under one of its two names.
HasKeyMetrics(m) ==
    /\ Has(m, "accuracy") \/ Has(m, "accuracy_score")
    /\ Has(m, "precision") \/ Has(m, "precision_score")
    /\ Has(m, "recall") \/ Has(m, "recall_score")
    /\ Has(m, "f1_score") \/ Has(m, "f1")

\* C7: right after a 2xx metrics answer with a malformed body (no body, no
\* `metrics` object, or a `metrics` object lacking the fields) the panel shows
\* the default metrics.
C7_MalformedMetricsShowDefaults ==
    (/\ event.op = "metricsSettled"
     /\ \/ event.arg \in {"null", "nometrics"}
        \/ event.arg = "metrics" /\ ~HasKeyMetrics(evaluationMetrics.v))
    => KeyMetrics(metrics) = [accuracy |-> 90, precision |-> 90, recall |-> 89, f1 |-> 89]

\* C8: handleFileSelect with a file makes it the selected file under a new
\* preview URL and clears the prediction and the error, whatever they were;
\* the model and the metrics stay.
C8_SelectFileClears ==
    [][\A file \in Files :
         handleFileSelect(file) =>
            /\ selectedFile' = file
            /\ previewUrl' \notin {NoUrl, previewUrl}
            /\ prediction' = JsNull
            /\ error' = NoError
            /\ selectedModel' = selectedModel
            /\ evaluationMetrics' = evaluationMetrics]_vars

C8_SelectedOverPredictionAndError ==
    /\ event.op = "selectFile"
    /\ event.hadPrediction
    /\ event.hadError
    /\ selectedFile # NoFile
    /\ prediction = JsNull
    /\ error = NoError

\* C9: handleModelChange makes the model the selected one and clears the
\* prediction; the file, its preview URL and the error message stay.
C9_SelectModelClearsPrediction ==
    [][\A modelType \in Models :
         handleModelChange(modelType) =>
            /\ selectedModel' = modelType
            /\ prediction' = JsNull
            /\ UNCHANGED <<selectedFile, previewUrl, error>>]_vars

C9_SelectedOverPrediction ==
    /\ event.op = "selectModel"
    /\ event.arg # selectedModel
    /\ event.hadPrediction
    /\ prediction = JsNull
    /\ selectedFile # NoFile
    /\ error # NoError

\* C10: one metrics fetch per change of the selected model: one for the default
\* model at the start, one for the new model in each step that changes the
\* selected model, and none in any other step.
C10_OneFetchPerModelChange ==
    /\ metricsIssued = 1
    /\ metricsInFlight = {[seq |-> 1, model |-> DefaultModel]}
    /\ [][IF selectedModel' # selectedModel
          THEN /\ metricsIssued' = metricsIssued + 1
               /\ metricsInFlight' \ metricsInFlight =
                    {[seq |-> metricsIssued', model |-> selectedModel']}
          ELSE /\ metricsIssued' = metricsIssued
               /\ metricsInFlight' \subseteq metricsInFlight]_vars

C10_ReselectedActiveModel ==
    /\ event.op = "selectModel"
    /\ event.arg = selectedModel
    /\ selectedModel # DefaultModel
    /\ metricsIssued = 2


\* C11: a non-2xx answer whose body carries an `error` message sets exactly
\* that message; a non-2xx answer without one sets the generic message; in
\* both cases the answer stores no prediction.
C11_ServerMessageVerbatim ==
    [][\A r \in predictInFlight : \A resp \in PredictResponses(r.model) :
         (resp.kind = "http" /\ handlePredictSettle(r, resp)) =>
            /\ error' = IF resp.msg # NoError THEN resp.msg ELSE "Failed to make prediction"
            /\ prediction' = prediction]_vars

C11_ServerMessageShown ==
    /\ event.op = "predictSettled"
    /\ event.arg = "http"
    /\ error = "file too large"
    /\ ~loading


\* C12: the cause of a failure can be told from the message: right after a
\* failure of one cause (no file, transport error, non-2xx, malformed 2xx
\* body) the message shown is a message, and is none that the code shows for
\* another cause.
C12_CausesHaveDistinctMessages ==
    LET failures == {resp \in PredictResponses(selectedModel) : resp.kind # "ok"}
        messagesOf(kind) == {ErrorMessageOf(resp) : resp \in {x \in failures : x.kind = kind}}
    IN  /\ (event.op = "predictSettled" /\ event.arg = "network") =>
               error \notin messagesOf("http") \cup {NoFileMessage, NoError}
        /\ (event.op = "predictSettled" /\ event.arg = "http") =>
               error \notin messagesOf("network") \cup {NoFileMessage, NoError}
        /\ (/\ event.op = "predictSettled"
            /\ event.arg = "ok"
            /\ ~Truthy(prediction) \/ ~WellFormedPrediction(prediction.v)) =>
               error \notin messagesOf("network") \cup messagesOf("http")
                              \cup {NoFileMessage, NoError}
        /\ event.op = "submitNoFile" =>
               error \notin messagesOf("network") \cup messagesOf("http") \cup {NoError}


\* C13: a new request discards the prediction of the earlier one at once:
\* while a request is Loading no prediction is held.
C13_NoPredictionWhileLoading ==
    loading => ~Truthy(prediction)

\* C14: the request state is one of Idle, Loading, Success(prediction) and
\* Failure(message): a prediction and an error message are never both held,
\* and neither is held while Loading.
C14_RequestStateIsTagged ==
    /\ ~(Truthy(prediction) /\ error # NoError)
    /\ ~(loading /\ Truthy(prediction))
    /\ ~(loading /\ error # NoError)


\* C15: an accepted submit enters Loading and clears the earlier error in the
\* step of the click itself; the step that leaves Loading is the answer, and
\* it leaves either a prediction of that answer with no error (Success) or an
\* error message (Failure).
C15_LoadingThenSuccessOrFailure ==
    [][/\ (~submitDisabled /\ ClickAnalyze) => (loading' /\ error' = NoError)
       /\ (loading /\ ~loading') =>
            /\ event'.op = "predictSettled"
            /\ \/ Truthy(prediction') /\ error' = NoError
               \/ error' # NoError]_vars


C17_OneRequestPerSubmit ==
    /\ predictIssued = 0 /\ predictInFlight = {}
    /\ [][/\ (~submitDisabled /\ ClickAnalyze) =>
               /\ predictIssued' = predictIssued + 1
               /\ predictInFlight' = predictInFlight \cup
                    {[seq |-> predictIssued', file |-> selectedFile, model |-> selectedModel]}
          /\ ~(~submitDisabled /\ ClickAnalyze) =>
               /\ predictIssued' = predictIssued
               /\ predictInFlight' \subseteq predictInFlight]_vars

C17_FailedAndNotRetried ==
    /\ event.op = "predictSettled"
    /\ event.arg = "network"
    /\ error = GenericMessage
    /\ predictIssued = 1
    /\ predictInFlight = {}


\* C18: the confidence line is green (high) exactly when the confidence is
\* above 0.8, yellow (medium) exactly when it is above 0.6 and at most 0.8,
\* and red (low) exactly when it is at most 0.6; so 0.8 itself is medium and
\* 0.6 itself is low.
C18_ConfidenceTier ==
    (event.op = "render" /\ Has(prediction.v, "confidence")) =>
        LET c == prediction.v.confidence
            colour == event.arg.colour
        IN /\ (colour = "text-green-600") <=> (c > 80)
           /\ (colour = "text-yellow-600") <=> (60 < c /\ c <= 80)
           /\ (colour = "text-red-600") <=> (c <= 60)
           /\ (c = 80) => (colour = "text-yellow-600")
           /\ (c = 60) => (colour = "text-red-600")

C18_BoundaryRendered ==
    /\ event.op = "render"
    /\ Has(prediction.v, "confidence")
    /\ prediction.v.confidence = 80
    /\ event.arg.colour = "text-yellow-600"

\* C19: the rows of the probability list are the (label, probability) pairs
\* of the answer's mapping, in the order of the mapping's keys.
C19_EntriesKeepKeyOrder ==
    event.op = "render" => event.arg.entries = prediction.v.all_predictions


\* C20: a preview URL is held exactly when a file is selected.
C20_PreviewIffFile ==
    (previewUrl # NoUrl) <=> (selectedFile # NoFile)

C20_FileSelectedWithPreview ==
    /\ event.op = "selectNothing"
    /\ selectedFile # NoFile
    /\ previewUrl # NoUrl


C22_SelectFileIdempotent ==
    [][(event.op = "selectFile" /\ handleFileSelect(selectedFile)) =>
          /\ selectedFile' = selectedFile
          /\ prediction' = prediction /\ prediction' = JsNull
          /\ error' = error /\ error' = NoError
          /\ UNCHANGED <<selectedModel, loading, predictIssued, predictInFlight,
                         predictionFor, metricsVars>>]_vars

C22_SameFileSelectedTwice ==
    /\ event.op = "selectFile"
    /\ event.arg = "again"
    /\ ~event.hadPrediction
    /\ ~event.hadError
    /\ selectedFile # NoFile
    /\ prediction = JsNull
    /\ error = NoError


\* C23: a 2xx answer replaces the held prediction entirely.  After the
\* answer the prediction is the body of an answer to the request that was
\* settled, field for field: label, confidence, class probabilities and model
\* identifier are the answer's, and nothing of the prediction held before is
\* carried over.
C23_SuccessReplacesPrediction ==
    [][(PredictAnswer /\ event'.arg = "ok") =>
          \E r \in predictInFlight \ predictInFlight' :
              prediction' \in {resp.data : resp \in
                                 {x \in PredictResponses(r.model) : x.kind = "ok"}}]_vars

C23_ReplacedHeldPrediction ==
    /\ event.op = "predictSettled"
    /\ event.arg = "ok"
    /\ event.hadPrediction
    /\ prediction = Obj(OtherBody(selectedModel))


\* C24: each of the four numbers shown is the number the metrics object
\* supplies for it, under whichever of its two names the object uses, for every
\* value from 0 to 1, 0 included.
C24_EitherNameIsRead ==
    event.op = "renderMetrics" =>
        \A field \in MetricFields : \A variant \in Variants :
            Has(evaluationMetrics.v, MetricKey(field, variant)) =>
                event.arg[field] = evaluationMetrics.v[MetricKey(field, variant)]

C24_ZeroUnderSecondName ==
    /\ event.op = "renderMetrics"
    /\ Has(evaluationMetrics.v, "accuracy_score")
    /\ evaluationMetrics.v.accuracy_score = 0
    /\ Has(evaluationMetrics.v, "f1")
    /\ evaluationMetrics.v.f1 = 94
    /\ event.arg.accuracy = 0
    /\ event.arg.f1 = 94


\* C25: the metrics stream and the inference stream are independent.  While a
\* metrics fetch is outstanding the three user operations stay available and
\* do what they always do; the answer to a metrics fetch leaves the selection,
\* the prediction, the loading flag and the error as they were; the answer to
\* a prediction request leaves the metrics and their loading flag as they were.
C25_StreamsIndependent ==
    /\ [](metricsInFlight # {} =>
            /\ \A file \in Files : ENABLED handleFileSelect(file)
            /\ \A modelType \in Models : ENABLED handleModelChange(modelType)
            /\ ENABLED handlePredict
            /\ (~loading /\ selectedFile # NoFile) => ~submitDisabled)
    /\ [][metricsInFlight # {} =>
            /\ \A file \in Files : handleFileSelect(file) =>
                  selectedFile' = file /\ prediction' = JsNull /\ error' = NoError
            /\ \A modelType \in Models : handleModelChange(modelType) =>
                  selectedModel' = modelType /\ prediction' = JsNull
            /\ (ClickAnalyze /\ ~loading /\ selectedFile # NoFile) =>
                  loading' /\ predictIssued' = predictIssued + 1]_vars
    /\ [][MetricsAnswer => UNCHANGED <<selection, prediction, loading, error>>]_vars
    /\ [][PredictAnswer => UNCHANGED <<evaluationMetrics, loadingMetrics>>]_vars

C25_PredictedWhileMetricsOutstanding ==
    /\ event.op = "predictSettled"
    /\ event.arg = "ok"
    /\ Truthy(prediction)
    /\ metricsInFlight # {}
    /\ loadingMetrics


\* C26: the metrics-loading flag is raised exactly when some metrics fetch is
\* outstanding; it does not drop while a later fetch is still unanswered.
C26_MetricsFlagTracksFetches ==
    loadingMetrics <=> (metricsInFlight # {})


\* C27: the loading flag is raised exactly when a prediction request is in
\* flight: raised when the request is issued, lowered when it settles, by a
\* 2xx answer, a non-2xx answer or no answer alike, and never lowered while a
\* request is outstanding.
C27_LoadingTracksRequest ==
    loading <=> (predictInFlight # {})

C27_LoweredAfterServerError ==
    /\ event.op = "predictSettled"
    /\ event.arg = "http"
    /\ ~loading
    /\ predictInFlight = {}
    /\ error # NoError


\* C28: a change event of the file input that carries no file is a no-op: the
\* selected file, the preview URL, the prediction, the error, the selected
\* model and the metrics are left as they were, and so is everything else.
C28_SelectNothingIsNoOp ==
    [][handleFileSelect(NoFile) =>
          UNCHANGED <<selectedFile, previewUrl, prediction, error, selectedModel,
                      evaluationMetrics, loading, loadingMetrics, metricsIssued,
                      metricsInFlight, predictIssued, predictInFlight>>]_vars

C28_CancelledOverHeldResult ==
    /\ event.op = "selectNothing"
    /\ selectedFile # NoFile
    /\ previewUrl # NoUrl
    /\ Truthy(prediction)
    /\ error # NoError
    /\ Truthy(evaluationMetrics)

=============================================================================
